---- MODULE Spec2Model ----
(***************************************************************************)
(* Abundance-greedy OTU clustering (agc/agc.py).                           *)
(*                                                                         *)
(* A run reads a FASTA file, dereplicates its sequences, walks the         *)
(* candidates by decreasing count and accepts a candidate as a new OTU     *)
(* unless its identity with an already accepted OTU exceeds 97 %.          *)
(*                                                                         *)
(* Strings are tuples of one-character strings.  A float identity          *)
(* (count/min_size)*100 is kept as the exact fraction num/den with         *)
(* num = 100*count and den = min_size; for every den below 300 the float   *)
(* comparison "identity > 97" agrees with num > 97*den.                    *)
(***************************************************************************)
EXTENDS Integers, Sequences, FiniteSets, TLC

VARIABLES
    amplicon_file,      \* the lines of the (decompressed) input file
    minseqlen,          \* args.minseqlen
    mincount,           \* args.mincount
    pc,                 \* position of the run
    list_deraplication, \* the candidate list, <<sequence, count>> pairs
    otus_list,          \* the OTU set, <<sequence, count>> pairs
    idx,                \* 1-based position of the outer for loop
    j,                  \* 1-based position of the inner for loop
    otu_flag,           \* the acceptance flag of the current candidate
    identity,           \* the last value get_identity returned
    would,              \* what nw.global_align answers for the current
                        \* candidate against each OTU, in OTU order
    log,                \* the comparisons made so far, in call order
    error,              \* the exception that ended the run, if any
    list_otus,          \* main's local: what the clustering returned
    output              \* the output file

vars == <<amplicon_file, minseqlen, mincount, pc, list_deraplication,
          otus_list, idx, j, otu_flag, identity, would, log, error,
          list_otus, output>>

-----------------------------------------------------------------------------
(* Bounds of the model and constants of the program *)

MaxLines == 5        \* lines of a short-read file
MaxRecords == 3      \* records of a long-read file
MaxShift == 1        \* largest offset of an alignment the provider returns
MaxPad == 3          \* longest padded string handed to the scorer alone

Threshold == 97      \* agc.py:155
Percent == 100       \* agc.py:128
Width == 80          \* agc.py:173

None == "None"
\* a local that is not bound yet, and one that is
Unbound == [unbound |-> TRUE]
Bound(v) == [value |-> v]
\* the output file before and after open(output_file, 'w')
Unopened == [opened |-> FALSE]
Written(records) == [opened |-> TRUE, records |-> records]
\* the provider's answer when the call raises
Fail == <<"AlignmentError">>
\* what a call evaluates to when it raises
Raised(exception) == [raised |-> exception]
ZeroDivisionError == Raised("ZeroDivisionError")
AlignmentError == Raised("AlignmentError")

Gap == "-"
Residues == {"A", "C"}
Whitespace == {" ", "\n"}

Min(a, b) == IF a <= b THEN a ELSE b
Max(a, b) == IF a >= b THEN a ELSE b

-----------------------------------------------------------------------------
(* read_fasta *)

RECURSIVE lstrip(_)
lstrip(line) ==
    IF line # <<>> /\ Head(line) \in Whitespace THEN lstrip(Tail(line))
    ELSE line

RECURSIVE rstrip(_)
rstrip(line) ==
    IF line # <<>> /\ line[Len(line)] \in Whitespace
    THEN rstrip(SubSeq(line, 1, Len(line) - 1))
    ELSE line

strip(line) == rstrip(lstrip(line))

startswith(line, ch) == line # <<>> /\ Head(line) = ch

\* a faulty variant of Yields: the length test alone
YieldsAnyLength(sequence, minlen) == Len(sequence) >= minlen

\* "if sequence and len(sequence) >= minseqlen"
Yields(sequence, minlen) == sequence # <<>> /\ Len(sequence) >= minlen

RECURSIVE read_lines(_, _, _, _)
read_lines(lines, i, sequence, minlen) ==
    IF i > Len(lines)
    THEN IF Yields(sequence, minlen) THEN <<sequence>> ELSE <<>>
    ELSE LET line == strip(lines[i]) IN
         IF startswith(line, ">")
         THEN (IF Yields(sequence, minlen) THEN <<sequence>> ELSE <<>>)
              \o read_lines(lines, i + 1, <<>>, minlen)
         ELSE read_lines(lines, i + 1, sequence \o line, minlen)

read_fasta(lines, minlen) == read_lines(lines, 1, <<>>, minlen)

-----------------------------------------------------------------------------
(* dereplication_fulllength *)

\* Counter: one <<sequence, count>> pair per distinct sequence, in the
\* order of first occurrence
CounterAdd(counts, s) ==
    IF \E k \in 1..Len(counts) : counts[k][1] = s
    THEN LET k == CHOOSE k \in 1..Len(counts) : counts[k][1] = s
         IN  [counts EXCEPT ![k] = <<s, counts[k][2] + 1>>]
    ELSE Append(counts, <<s, 1>>)

RECURSIVE CounterFrom(_, _)
CounterFrom(counts, list) ==
    IF list = <<>> THEN counts
    ELSE CounterFrom(CounterAdd(counts, Head(list)), Tail(list))

Counter(list) == CounterFrom(<<>>, list)

\* a faulty variant of Keeps: an off-by-one count filter
KeepsAbove(count, minc) == count > minc

\* "if count >= mincount"
Keeps(count, minc) == count >= minc

\* a faulty variant of SortedInsert: the sort without reverse=True
SortedInsertAscending(sorted, item) ==
    LET before == Cardinality({k \in 1..Len(sorted) : sorted[k][2] <= item[2]})
    IN  SubSeq(sorted, 1, before) \o <<item>>
        \o SubSeq(sorted, before + 1, Len(sorted))

\* sorted(..., key=count, reverse=True) is stable: an item goes after every
\* item whose count is at least its own
SortedInsert(sorted, item) ==
    LET before == Cardinality({k \in 1..Len(sorted) : sorted[k][2] >= item[2]})
    IN  SubSeq(sorted, 1, before) \o <<item>>
        \o SubSeq(sorted, before + 1, Len(sorted))

RECURSIVE SortedFrom(_, _)
SortedFrom(sorted, items) ==
    IF items = <<>> THEN sorted
    ELSE SortedFrom(SortedInsert(sorted, Head(items)), Tail(items))

dereplication_fulllength(lines, minlen, minc) ==
    LET sequence_counts == Counter(read_fasta(lines, minlen))
        filtered_sequences ==
            SelectSeq(sequence_counts, LAMBDA item : Keeps(item[2], minc))
    IN  SortedFrom(<<>>, filtered_sequences)

-----------------------------------------------------------------------------
(* get_identity *)

RECURSIVE ZipCount(_, _)

\* a faulty variant of ZipCount: the positions that differ are counted
ZipCountDiffering(x, y) ==
    IF x = <<>> \/ y = <<>> THEN 0
    ELSE (IF Head(x) # Head(y) THEN 1 ELSE 0) + ZipCount(Tail(x), Tail(y))

\* sum(1 for a, b in zip(x, y) if a == b): zip stops at the shorter string
ZipCount(x, y) ==
    IF x = <<>> \/ y = <<>> THEN 0
    ELSE (IF Head(x) = Head(y) THEN 1 ELSE 0) + ZipCount(Tail(x), Tail(y))

Ungap(s) == SelectSeq(s, LAMBDA ch : ch # Gap)

\* a faulty variant of get_identity: the divisor is the shorter unpadded sequence
get_identity_unpadded(alignment_list) ==
    LET count == ZipCount(alignment_list[1], alignment_list[2])
        min_size == Min(Len(Ungap(alignment_list[1])),
                        Len(Ungap(alignment_list[2])))
    IN  IF min_size = 0 THEN ZeroDivisionError
        ELSE [num |-> Percent * count, den |-> min_size]

get_identity(alignment_list) ==
    LET count == ZipCount(alignment_list[1], alignment_list[2])
        min_size == Min(Len(alignment_list[1]), Len(alignment_list[2]))
    IN  IF min_size = 0 THEN ZeroDivisionError
        ELSE [num |-> Percent * count, den |-> min_size]

\* a faulty variant of Above: the comparison the wrong way round
Below(ident) == ident.num < Threshold * ident.den

\* a faulty variant of Above: a threshold that is not strict
AtLeast(ident) == ident.num >= Threshold * ident.den

\* "if identity > 97"
Above(ident) == ident.num > Threshold * ident.den

-----------------------------------------------------------------------------
(* nw.global_align: the alignment provider *)

Gaps(n) == [k \in 1..n |-> Gap]

\* a is moved d columns to the right of b; both are padded with gaps at the
\* ends to one length
ShiftAlign(a, b, d) ==
    LET L == Max(d + Len(a), Len(b))
    IN  << Gaps(d) \o a \o Gaps(L - d - Len(a)), b \o Gaps(L - Len(b)) >>

\* the answers the provider may give for one call: an alignment without a
\* column of two gaps, or a failure
global_align(a, b) ==
    { ShiftAlign(a, b, d) : d \in 0..Min(MaxShift, Min(Len(a), Len(b))) }
    \cup {Fail}

\* the provider's answers for one candidate against the OTUs 1..n; after a
\* failed call the run has ended, so later answers are Fail as well
RECURSIVE Answers(_, _, _)
Answers(sequence, otus, n) ==
    IF n = 0 THEN {<<>>}
    ELSE { Append(w, x) :
             w \in Answers(sequence, otus, n - 1),
             x \in global_align(sequence, otus[n][1]) }

Canonical(w) == \A k \in 1..(Len(w) - 1) : w[k] = Fail => w[k + 1] = Fail

-----------------------------------------------------------------------------
(* write_OTU *)

\* textwrap.fill of a string without blanks: pieces of Width characters
RECURSIVE fill(_)
fill(s) ==
    IF Len(s) <= Width THEN <<s>>
    ELSE <<SubSeq(s, 1, Width)>> \o fill(SubSeq(s, Width + 1, Len(s)))

write_OTU(OTU_list) ==
    [ index \in 1..Len(OTU_list) |->
        [ otu |-> index,
          occurrence |-> OTU_list[index][2],
          lines |-> fill(OTU_list[index][1]) ] ]

-----------------------------------------------------------------------------
(* The inputs of a run *)

Header == <<">", "\n">>
Line(s) == s \o <<"\n">>

TuplesUpTo(S, n) == UNION { [1..k -> S] : k \in 0..n }

\* short reads: any file of at most MaxLines lines, each a header, a blank
\* line or one residue
ShortLines == {Header, Line(<<>>)} \cup { Line(<<r>>) : r \in Residues }
ShortFiles == TuplesUpTo(ShortLines, MaxLines)
ShortMinSeqLens == {-1, 0, 2}
ShortMinCounts == {1, 2}

\* long reads: one residue per percent point, so that an identity can be
\* any whole percentage; Variant(k) differs from Variant(0) in its first k
\* residues
LongLen == Percent
Variant(k) == [i \in 1..LongLen |-> IF i <= k THEN "C" ELSE "A"]
Pool == { Variant(k) : k \in {0, 2, 5} }

RECURSIVE Flatten(_)
Flatten(records) ==
    IF records = <<>> THEN <<>>
    ELSE <<Header, Line(Head(records))>> \o Flatten(Tail(records))

LongFiles == { Flatten(records) : records \in TuplesUpTo(Pool, MaxRecords) }

Locals ==
    /\ list_deraplication = <<>>
    /\ otus_list = <<>>
    /\ idx = 0
    /\ j = 0
    /\ otu_flag = TRUE
    /\ identity = Unbound
    /\ log = <<>>
    /\ error = None
    /\ list_otus = Unbound
    /\ output = Unopened

Start ==
    /\ pc = "start"
    /\ would = <<>>

Init ==
    /\ \/ /\ amplicon_file \in ShortFiles
          /\ minseqlen \in ShortMinSeqLens
          /\ mincount \in ShortMinCounts
       \/ /\ amplicon_file \in LongFiles
          /\ minseqlen = LongLen
          /\ mincount = 1
    /\ Locals
    /\ Start

-----------------------------------------------------------------------------
(* abundance_greedy_clustering and main *)

\* a faulty variant of Accept: the new OTU is put first
AcceptFirst(otus, candidate) == <<candidate>> \o otus

\* otus_list.append([sequence, count])
Accept(otus, candidate) == Append(otus, candidate)

\* a faulty variant of AfterCompare: no break
AfterCompareAll(above, compared, total) ==
    IF compared < total THEN "inner" ELSE "if"

\* where the inner loop goes after a comparison: break on a hit, the next
\* OTU otherwise, line 159 when the OTUs are exhausted
AfterCompare(above, compared, total) ==
    IF above THEN "if"
    ELSE IF compared < total THEN "inner" ELSE "if"

\* a faulty variant of AfterFailure: the exception is swallowed and the loop goes
\* on with the next candidate
AfterFailureSkip == "for"

\* no handler encloses the call: an exception leaves the clustering and main
AfterFailure == "aborted"

\* line 143: the candidate list is built in full before the loop starts
Dereplicate ==
    /\ pc = "start"
    /\ list_deraplication' =
           dereplication_fulllength(amplicon_file, minseqlen, mincount)
    /\ otus_list' = <<>>
    /\ pc' = "for"
    /\ UNCHANGED <<amplicon_file, minseqlen, mincount, idx, j, otu_flag,
                   identity, would, log, error, list_otus, output>>

\* lines 146-147: the next candidate; the provider, a function of its
\* arguments, has its answers for this candidate fixed from here on
NextCandidate ==
    /\ pc = "for"
    /\ idx < Len(list_deraplication)
    /\ idx' = idx + 1
    /\ otu_flag' = TRUE
    /\ j' = 0
    /\ would' \in { w \in Answers(list_deraplication[idx + 1][1], otus_list,
                                  Len(otus_list)) : Canonical(w) }
    /\ pc' = IF Len(otus_list) > 0 THEN "inner" ELSE "if"
    /\ UNCHANGED <<amplicon_file, minseqlen, mincount, list_deraplication,
                   otus_list, identity, log, error, list_otus, output>>

\* lines 149-157: one pass of the inner loop
Compare ==
    /\ pc = "inner"
    /\ j' = j + 1
    /\ LET alignment == would[j + 1]
           value == IF alignment = Fail THEN AlignmentError
                    ELSE get_identity(alignment)
       IN  /\ log' = Append(log, [cand |-> idx, rep |-> j + 1,
                                  identity |-> value])
           /\ IF value \in {AlignmentError, ZeroDivisionError}
              THEN /\ error' = value.raised
                   /\ pc' = AfterFailure
                   /\ UNCHANGED <<identity, otu_flag>>
              ELSE /\ identity' = value
                   /\ otu_flag' = IF Above(value) THEN FALSE ELSE otu_flag
                   /\ pc' = AfterCompare(Above(value), j + 1, Len(otus_list))
                   /\ UNCHANGED error
    /\ UNCHANGED <<amplicon_file, minseqlen, mincount, list_deraplication,
                   otus_list, idx, would, list_otus, output>>

\* lines 159-160
Decide ==
    /\ pc = "if"
    /\ otus_list' = IF otu_flag
                    THEN Accept(otus_list, list_deraplication[idx])
                    ELSE otus_list
    /\ pc' = "for"
    /\ UNCHANGED <<amplicon_file, minseqlen, mincount, list_deraplication,
                   idx, j, otu_flag, identity, would, log, error, list_otus,
                   output>>

\* line 161, and main's line 188
Return ==
    /\ pc = "for"
    /\ idx = Len(list_deraplication)
    /\ list_otus' = Bound(otus_list)
    /\ pc' = "write"
    /\ UNCHANGED <<amplicon_file, minseqlen, mincount, list_deraplication,
                   otus_list, idx, j, otu_flag, identity, would, log, error,
                   output>>

\* main's line 190
WriteOTU ==
    /\ pc = "write"
    /\ output' = Written(write_OTU(list_otus.value))
    /\ pc' = "done"
    /\ UNCHANGED <<amplicon_file, minseqlen, mincount, list_deraplication,
                   otus_list, idx, j, otu_flag, identity, would, log, error,
                   list_otus>>

Next ==
    \/ Dereplicate
    \/ NextCandidate
    \/ Compare
    \/ Decide
    \/ Return
    \/ WriteOTU

Spec == Init /\ [][Next]_vars

-----------------------------------------------------------------------------
(* The scorer alone, on any pair of padded strings of one length *)

PaddedPairs ==
    UNION { [1..n -> Residues \cup {Gap}] \X [1..n -> Residues \cup {Gap}] :
            n \in 0..MaxPad }

InitIdentity ==
    /\ amplicon_file = <<>>
    /\ minseqlen = 0
    /\ mincount = 0
    /\ Locals
    /\ \E pair \in PaddedPairs :
           /\ would = <<pair>>
           /\ pc = "scorer"

Score ==
    /\ pc = "scorer"
    /\ identity' = get_identity(would[1])
    /\ pc' = "scored"
    /\ UNCHANGED <<amplicon_file, minseqlen, mincount, list_deraplication,
                   otus_list, idx, j, otu_flag, would, log, error, list_otus,
                   output>>

NextIdentity == Score

SpecIdentity == InitIdentity /\ [][NextIdentity]_vars

-----------------------------------------------------------------------------
(* Vocabulary of the properties *)

IsPrefix(s, t) == Len(s) <= Len(t) /\ SubSeq(t, 1, Len(s)) = s

RECURSIVE IsSubsequence(_, _)
IsSubsequence(s, t) ==
    IF s = <<>> THEN TRUE
    ELSE IF t = <<>> THEN FALSE
    ELSE IF Head(s) = Head(t) THEN IsSubsequence(Tail(s), Tail(t))
    ELSE IsSubsequence(s, Tail(t))

NoDuplicate(pairs) ==
    \A a, b \in 1..Len(pairs) : pairs[a][1] = pairs[b][1] => a = b

CountsDescend(pairs) ==
    \A a, b \in 1..Len(pairs) : a < b => pairs[a][2] >= pairs[b][2]

\* the records of a file: a header opens a record that runs to the next
\* header; text before the first header is a record of its own
IsHeaderAt(lines, i) == startswith(strip(lines[i]), ">")

RecordEnd(lines, h) ==
    LET later == { i \in (h + 1)..Len(lines) : IsHeaderAt(lines, i) }
    IN  IF later = {} THEN Len(lines)
        ELSE (CHOOSE i \in later : \A k \in later : i <= k) - 1

RECURSIVE Joined(_, _, _)
Joined(lines, from, to) ==
    IF from > to THEN <<>>
    ELSE strip(lines[from]) \o Joined(lines, from + 1, to)

RecordBody(lines, h) == Joined(lines, h + 1, RecordEnd(lines, h))

Records(lines) ==
    { h \in 0..Len(lines) :
        \/ h > 0 /\ IsHeaderAt(lines, h)
        \/ h = 0 /\ RecordBody(lines, 0) # <<>> }

Occurrences(lines, s) ==
    Cardinality({ h \in Records(lines) : RecordBody(lines, h) = s })

InputSequences(lines) == { RecordBody(lines, h) : h \in Records(lines) }

Candidates == { list_deraplication[k][1] : k \in 1..Len(list_deraplication) }

\* the positions at which two padded strings of one length agree
Matches(alignment) ==
    Cardinality({ i \in 1..Len(alignment[1]) :
                    alignment[1][i] = alignment[2][i] })

Low(ident) == ident.num <= Threshold * ident.den
High(ident) == ident.num > Threshold * ident.den
Exactly(ident) == ident.num = Threshold * ident.den

\* the comparisons made for candidate c, in call order
Calls(c) == SelectSeq(log, LAMBDA e : e.cand = c)

\* the candidates whose fate is settled
Settled == { c \in 1..Len(list_deraplication) :
               c < idx \/ (c = idx /\ pc \in {"for", "write", "done"}) }

IsOTU(c) == \E k \in 1..Len(otus_list) : otus_list[k] = list_deraplication[c]

-----------------------------------------------------------------------------
(* C1 *)

Dereplicated(S) ==
    pc # "start" =>
        /\ \A s \in S :
               (Len(s) >= minseqlen /\ Occurrences(amplicon_file, s) >= mincount)
               <=> s \in Candidates
        /\ Candidates \subseteq S
        /\ NoDuplicate(list_deraplication)
        /\ \A k \in 1..Len(list_deraplication) :
               list_deraplication[k][2] =
                   Occurrences(amplicon_file, list_deraplication[k][1])
        /\ CountsDescend(list_deraplication)

\* C1 as stated: the candidate list holds exactly the distinct sequences of
\* the input that are long enough and frequent enough, each once with its
\* true count, by descending count.
C1_AsStated == Dereplicated(InputSequences(amplicon_file))

\* C1: the candidate list holds exactly the distinct NON-EMPTY sequences of
\* the input whose length is >= minseqlen and whose number of occurrences is
\* >= mincount, each once with its true count, by descending count.
C1_Dereplication == Dereplicated(InputSequences(amplicon_file) \ {<<>>})

\* the sort has moved a more frequent sequence in front of one that occurs
\* earlier in the file, and the count filter has dropped a sequence
C1_Witness ==
    /\ pc # "start"
    /\ Len(list_deraplication) >= 1
    /\ \E s \in InputSequences(amplicon_file) \ {<<>>} :
           /\ s \notin Candidates
           /\ RecordBody(amplicon_file, 0) = s
    /\ list_deraplication[1][2] >= 2

-----------------------------------------------------------------------------
(* C2 *)

\* the candidate at line 159 becomes an OTU exactly when the provider's
\* alignment of it with every current OTU scores at most 97
C2_Decision ==
    pc = "if" =>
        /\ otus_list' \in {otus_list,
                           Append(otus_list, list_deraplication[idx])}
        /\ (otus_list' = Append(otus_list, list_deraplication[idx]))
           <=> \A k \in 1..Len(otus_list) :
                   would[k] # Fail /\ Low(get_identity(would[k]))

\* every OTU was compared with every OTU accepted before it, and scored at
\* most 97
C2_Pairs ==
    \A c \in 1..Len(list_deraplication) :
        \A k \in 1..Len(otus_list) :
            otus_list[k] = list_deraplication[c] =>
                \A i \in 1..(k - 1) :
                    \E n \in 1..Len(log) :
                        /\ log[n].cand = c
                        /\ log[n].rep = i
                        /\ log[n].identity # AlignmentError
                        /\ Low(log[n].identity)

\* every settled candidate that is no OTU scored above 97 against an OTU
\* that was accepted before it
C2_LeftOut ==
    \A c \in Settled :
        ~IsOTU(c) =>
            \E n \in 1..Len(log) :
                /\ log[n].cand = c
                /\ log[n].rep <= Len(otus_list)
                /\ otus_list[log[n].rep] \in
                       { list_deraplication[b] : b \in 1..(c - 1) }
                /\ log[n].identity # AlignmentError
                /\ High(log[n].identity)

\* C2: a candidate is appended to the OTU set if and only if every OTU
\* present when it is processed has identity <= 97 with it; hence any OTU
\* scored <= 97 against each earlier OTU, and any candidate left out scored
\* > 97 against an OTU accepted before it.
C2_GreedyAcceptance ==
    /\ [](C2_Pairs /\ C2_LeftOut)
    /\ [][C2_Decision]_vars

\* one candidate has been left out and two have become OTUs
C2_Witness ==
    /\ pc = "for"
    /\ Len(otus_list) >= 2
    /\ \E c \in Settled : ~IsOTU(c)

-----------------------------------------------------------------------------
(* C3 *)

\* the value of the comparison a Compare step makes
C3_Compared(divisor) ==
    (pc = "inner" /\ would[j + 1] # Fail) =>
        /\ identity' = log'[Len(log')].identity
        /\ identity'.den > 0
        /\ identity'.num * divisor
               = Percent * Matches(would[j + 1]) * identity'.den

\* C3 as stated: the identity of a comparison is 100 * matches divided by
\* the length of the shorter of the two unpadded sequences.
C3_AsStated ==
    [][C3_Compared(Min(Len(list_deraplication[idx][1]),
                       Len(otus_list[j + 1][1])))]_vars

\* C3: the identity of a comparison is 100 * matches divided by the length
\* of the padded alignment (the shorter of the two padded strings, which
\* have one length), not by the length of the shorter unpadded sequence.
C3_IdentityValue ==
    [][C3_Compared(Min(Len(would[j + 1][1]), Len(would[j + 1][2])))]_vars

\* a comparison has scored an alignment that is longer than the shorter of
\* its two sequences, with matching positions
C3_Witness ==
    /\ pc \in {"inner", "if"}
    /\ j >= 1
    /\ would[j] # Fail
    /\ Len(would[j][1]) > Min(Len(list_deraplication[idx][1]),
                              Len(otus_list[j][1]))
    /\ identity = log[Len(log)].identity
    /\ identity.num > 0

-----------------------------------------------------------------------------
(* C4 *)

C4_AtThreshold ==
    /\ Len(would) >= 1
    /\ \A k \in 1..Len(would) :
           would[k] # Fail /\ Low(get_identity(would[k]))
    /\ \E k \in 1..Len(would) : Exactly(get_identity(would[k]))

C4_Decision ==
    pc = "if" =>
        /\ C4_AtThreshold =>
               otus_list' = Append(otus_list, list_deraplication[idx])
        /\ otus_list' = otus_list =>
               \E k \in 1..Len(would) :
                   would[k] # Fail /\ High(get_identity(would[k]))

\* C4: a candidate whose identity with an OTU is exactly 97, and at most 97
\* with every other OTU, is accepted; a candidate is absorbed only on an
\* identity strictly above 97.
C4_StrictThreshold == [][C4_Decision]_vars

\* a candidate that scored exactly 97 has just become an OTU
C4_Witness ==
    /\ pc = "for"
    /\ idx >= 2
    /\ C4_AtThreshold
    /\ otus_list[Len(otus_list)] = list_deraplication[idx]
    /\ Len(otus_list) = Len(would) + 1

-----------------------------------------------------------------------------
(* C5 *)

\* C5: in every step the OTU set before the step is a prefix of the OTU set
\* after it: nothing is removed, reordered, merged or changed.
C5_AppendOnly == [][IsPrefix(otus_list, otus_list')]_vars

\* the OTU set has grown twice and a candidate has been absorbed
C5_Witness ==
    /\ Len(otus_list) >= 2
    /\ idx > Len(otus_list)
    /\ pc \in {"for", "write", "done"}

-----------------------------------------------------------------------------
(* C6 *)

\* the score of the pair handed to the scorer lies in [0, 100], and is 100
\* when the two strings are one and the same
C6_Scored(pairs) ==
    (pc = "scored" /\ would[1] \in pairs) =>
        /\ identity # ZeroDivisionError
        /\ 0 <= identity.num
        /\ identity.num <= Percent * identity.den
        /\ would[1][1] = would[1][2] => identity.num = Percent * identity.den

\* C6 as stated: for every pair of padded strings of one length the scorer
\* returns a value in [0, 100], and 100 for two identical strings.
C6_AsStated == C6_Scored(PaddedPairs)

\* C6: for every pair of NON-EMPTY padded strings of one length the scorer
\* returns a value in [0, 100], and 100 for two identical strings (on the
\* pair of empty strings it raises ZeroDivisionError).
C6_IdentityRange ==
    /\ C6_Scored(PaddedPairs \ {<< <<>>, <<>> >>})
    /\ (pc = "scored" /\ would[1] = << <<>>, <<>> >>)
           => identity = ZeroDivisionError

\* the scorer has returned 100 for a string aligned to itself
C6_Witness ==
    /\ pc = "scored"
    /\ Len(would[1][1]) = MaxPad
    /\ would[1][1] = would[1][2]
    /\ identity # ZeroDivisionError
    /\ identity.num = Percent * identity.den

-----------------------------------------------------------------------------
(* C7 *)

\* a failed call ends the run where it stands
C7_FailedCall ==
    (pc = "inner" /\ would[j + 1] = Fail) =>
        /\ pc' = "aborted"
        /\ error' # None
        /\ UNCHANGED <<otus_list, idx, list_otus, output>>

C7_Aborted ==
    pc = "aborted" =>
        /\ error # None
        /\ list_otus = Unbound
        /\ output = Unopened
        /\ log[Len(log)].identity \in {AlignmentError, ZeroDivisionError}

C7_NoRetry ==
    \A a, b \in 1..Len(log) :
        (log[a].cand = log[b].cand /\ log[a].rep = log[b].rep) => a = b

C7_WrittenLast ==
    output # Unopened =>
        /\ pc = "done"
        /\ error = None
        /\ idx = Len(list_deraplication)

\* C7: when a call of the alignment provider fails the run ends at that
\* comparison: no further candidate is processed, the comparison is not
\* retried, nothing is returned and the output file is never opened; the
\* file is written only after every candidate has been clustered.
C7_FailureAborts ==
    /\ [](C7_Aborted /\ C7_NoRetry /\ C7_WrittenLast)
    /\ [][C7_FailedCall]_vars
    /\ [][pc = "aborted" => UNCHANGED vars]_vars

\* the provider has failed with an OTU accepted and a candidate to come
C7_Witness ==
    /\ pc = "aborted"
    /\ error = "AlignmentError"
    /\ Len(otus_list) >= 1
    /\ idx < Len(list_deraplication)

-----------------------------------------------------------------------------
(* C8 *)

\* the OTUs that score above 97 against the current candidate
C8_Hits ==
    { k \in 1..Len(would) : would[k] # Fail /\ High(get_identity(would[k])) }

C8_Expected ==
    IF C8_Hits = {} THEN Len(would)
    ELSE CHOOSE k \in C8_Hits : \A h \in C8_Hits : k <= h

\* C8: once the inner loop is over, the comparisons made for the candidate
\* are those with OTUs 1..k in that order, k being the first OTU that scores
\* above 97, or with every OTU in order when none does.
C8_ShortCircuit ==
    pc = "if" =>
        /\ Len(would) = Len(otus_list)
        /\ Len(Calls(idx)) = C8_Expected
        /\ \A m \in 1..Len(Calls(idx)) : Calls(idx)[m].rep = m

\* the first of two OTUs has scored above 97: the second was not aligned
C8_Witness ==
    /\ pc = "if"
    /\ Len(otus_list) >= 2
    /\ 1 \in C8_Hits
    /\ Len(Calls(idx)) = 1

-----------------------------------------------------------------------------
(* C9 *)

\* C9: whatever minseqlen is, no empty sequence is a candidate or an OTU,
\* the provider is never asked to align one, and the scorer never divides
\* by zero.
C9_NeverEmpty ==
    /\ \A k \in 1..Len(list_deraplication) : list_deraplication[k][1] # <<>>
    /\ \A k \in 1..Len(otus_list) : otus_list[k][1] # <<>>
    /\ \A k \in 1..Len(would) :
           (pc # "scorer" /\ pc # "scored" /\ would[k] # Fail) =>
               Ungap(would[k][1]) # <<>> /\ Ungap(would[k][2]) # <<>>
    /\ \A n \in 1..Len(log) : log[n].identity # ZeroDivisionError
    /\ error # "ZeroDivisionError"

\* the file holds a record without residues, minseqlen lets length 0
\* through, and the scorer has been called
C9_Witness ==
    /\ minseqlen <= 0
    /\ <<>> \in InputSequences(amplicon_file)
    /\ Len(log) >= 1
    /\ log[Len(log)].identity # AlignmentError

-----------------------------------------------------------------------------
(* C10 *)

\* C10: the OTU set is a subsequence of the candidate list, without
\* duplicates, so its counts never increase along the index; the first
\* candidate is OTU number 1 of the returned OTU set.
C10_Subsequence ==
    /\ IsSubsequence(otus_list, list_deraplication)
    /\ NoDuplicate(otus_list)
    /\ CountsDescend(otus_list)
    /\ (pc \in {"write", "done"} /\ list_deraplication # <<>>) =>
           /\ list_otus.value # <<>>
           /\ list_otus.value[1] = list_deraplication[1]

\* the returned OTU set skips the second of three candidates
C10_Witness ==
    /\ pc = "done"
    /\ Len(list_otus.value) = 2
    /\ Len(list_deraplication) = 3
    /\ list_otus.value[2] = list_deraplication[3]

====
